---- MODULE Spec2Model ----
(***************************************************************************)
(* Model of src/commands.ts of jsr-npm: the registry configuration writers *)
(* setupNpmRc / setupBunfigToml, the install command, and the publish      *)
(* command with its binary cache folder.                                   *)
(*                                                                         *)
(* File contents are sequences of one-character strings, so that          *)
(* String.prototype.includes and the regular expression of                 *)
(* setupBunfigToml are computed character by character.                    *)
(***************************************************************************)
EXTENDS Integers, Sequences, FiniteSets, TLC

VARIABLES
    fs,        \* the config files of the directory: file name -> [exists, data]
    cmd,       \* the exported function the current run entered through
    fn,        \* the setup function the run is inside ("none" outside one)
    pc,        \* position of the current run (its next await)
    mgr,       \* install: the resolved package manager
    opts,      \* install: the InstallOptions of the run
    content,   \* setup*: the local `content`
    err,       \* the error the run ended with ("none" if none)
    stdout,    \* what the run wrote to process.stdout / console.log
    io,        \* the fs.promises.readFile / writeFile calls the run made, in order
    pmCalls,   \* the pkgManager.install calls the run made
    pre,       \* the files as they were when the run started
    prev,      \* the run that completed before the current one
    calls,     \* number of runs started
    bin,       \* publish: the binFolder: [exists, files: path -> artifact]
    ppc,       \* publish: position of each publish invocation
    popts,     \* publish: platform and PublishOptions of each invocation
    info,      \* publish: the download descriptor each invocation resolved
    perr,      \* publish: the error each invocation ended with
    ops        \* publish: the external calls each invocation made, in order

cfgVars == <<fs, cmd, fn, pc, mgr, opts, content, err, stdout, io, pmCalls, pre, prev, calls>>
pubVars == <<bin, ppc, popts, info, perr, ops>>
vars == <<fs, cmd, fn, pc, mgr, opts, content, err, stdout, io, pmCalls, pre, prev, calls, bin, ppc, popts, info, perr, ops>>

----------------------------------------------------------------------------
(* Bounds *)

\* number of fragments an initial file content is built from
MaxFrags == 2
\* number of command runs on the directory
MaxCalls == 2

----------------------------------------------------------------------------
(* Constants of commands.ts *)

NPMRC_FILE == ".npmrc"
BUNFIG_FILE == "bunfig.toml"

JSR_NPMRC == <<"@", "j", "s", "r", ":", "r", "e", "g", "i", "s", "t", "r", "y", "=", "h", "t", "t", "p", "s", ":", "/", "/", "n", "p", "m", ".", "j", "s", "r", ".", "i", "o", "\n">>

JSR_BUNFIG == <<"[", "i", "n", "s", "t", "a", "l", "l", ".", "s", "c", "o", "p", "e", "s", "]", "\n", "\"", "@", "j", "s", "r", "\"", " ", "=", " ", "\"", "h", "t", "t", "p", "s", ":", "/", "/", "n", "p", "m", ".", "j", "s", "r", ".", "i", "o", "/", "\"", "\n">>

\* the literal the regular expression of setupBunfigToml looks for: "@myorg1"
BunfigScopeLiteral == <<"\"", "@", "m", "y", "o", "r", "g", "1", "\"">>

\* msg of setupNpmRc / setupBunfigToml
NpmRcMsg == "Setting up .npmrc"
BunfigMsg == "Setting up bunfig.toml"

----------------------------------------------------------------------------
(* Strings *)

\* s.includes(sub)
Includes(s, sub) == \E i \in 1..(Len(s) - Len(sub) + 1) : SubSeq(s, i, i + Len(sub) - 1) = sub

\* number of (possibly overlapping) occurrences of sub in s
Occurrences(s, sub) == Cardinality({i \in 1..(Len(s) - Len(sub) + 1) : SubSeq(s, i, i + Len(sub) - 1) = sub})

\* s.startsWith(p)
IsPrefix(p, s) == Len(p) <= Len(s) /\ SubSeq(s, 1, Len(p)) = p

\* the characters \s matches, among those the model's files use
WhiteSpace == {" ", "\t", "\n", "\r"}
\* the characters after which ^ matches under the m flag
LineTerminator == {"\n", "\r"}

\* /^"@myorg1"\s+=/gm.test(s): at the start of some line, the literal,
\* then one or more white space characters, then "="
BunfigRegexTest(s) == \E i \in 1..Len(s) : /\ (i = 1 \/ s[i - 1] \in LineTerminator)
                       /\ i + Len(BunfigScopeLiteral) - 1 <= Len(s)
                       /\ SubSeq(s, i, i + Len(BunfigScopeLiteral) - 1) = BunfigScopeLiteral
                       /\ \E j \in (i + Len(BunfigScopeLiteral) + 1)..Len(s) :
                            /\ s[j] = "="
                            /\ \A k \in (i + Len(BunfigScopeLiteral))..(j - 1) : s[k] \in WhiteSpace

----------------------------------------------------------------------------
(* Files and the outcomes of the file system calls *)

ConfigFiles == {NPMRC_FILE, BUNFIG_FILE}
Absent == [exists |-> FALSE, data |-> <<>>]
File(d) == [exists |-> TRUE, data |-> d]

\* fragments the initial .npmrc is built from: the registry line, the line
\* without its line feed, and text that completes it in other ways
NpmRcFragments == {JSR_NPMRC, SubSeq(JSR_NPMRC, 1, Len(JSR_NPMRC) - 1), <<"/", "\n">>, <<"\n">>}

\* fragments the initial bunfig.toml is built from: the block the code
\* emits, a declaration of the scope the regular expression looks for, the
\* same without white space before "=", and a blank
BunfigFragments == {JSR_BUNFIG, BunfigScopeLiteral \o <<" ", "=", " ", "1", "\n">>, BunfigScopeLiteral \o <<"=", "1", "\n">>, <<" ">>}

RECURSIVE Concats(_, _)
Concats(frags, n) == IF n = 0 THEN {<<>>} ELSE LET shorter == Concats(frags, n - 1) IN shorter \cup {a \o b : a \in shorter, b \in frags}

InitialFiles(frags) == {Absent} \cup {File(d) : d \in Concats(frags, MaxFrags)}

\* error codes: not-found, and one standing for every other failure
ErrorCodes == {"ENOENT", "EACCES"}

\* fs.promises.readFile: the data, not-found exactly when the file is
\* absent, or another failure (permission, I/O)
ReadOutcomes(f) == (IF f.exists THEN {"ok"} ELSE {"ENOENT"}) \cup {"EACCES"}

\* fs.promises.writeFile: succeeds, or fails when opening the file
WriteOutcomes == {"ok"} \cup ErrorCodes

----------------------------------------------------------------------------
(* wrapWithStatus, split at its await *)

\* process.stdout.write(msg + "...")
wrapWithStatusStart(out, msg) == Append(out, <<msg, "...">>)
\* fn() resolved: process.stdout.write(kl.green("ok") + "\n")
wrapWithStatusOk(out) == Append(out, <<"ok", "\n">>)
\* fn() rejected: process.stdout.write(kl.red("error") + "\n"); throw err
wrapWithStatusError(out) == Append(out, <<"error", "\n">>)

----------------------------------------------------------------------------
(* setupNpmRc and setupBunfigToml *)

\* a variant that tests content.startsWith(JSR_NPMRC)
npmRcHasLine_startsWith(c) == IsPrefix(JSR_NPMRC, c)
\* !content.includes(JSR_NPMRC) is the condition to append
npmRcHasLine(c) == Includes(c, JSR_NPMRC)
\* !/^"@myorg1"\s+=/gm.test(content) is the condition to append
bunfigHasScope(c) == BunfigRegexTest(c)

\* a variant that assigns (content = marker) instead of appending
appendMarker_overwrite(c, marker) == marker
\* content += JSR_NPMRC / content += JSR_BUNFIG
appendMarker(c, marker) == c \o marker

\* a variant that takes every read failure for not-found
isNotFound_anyError(code) == code # "ok"
\* err instanceof Error && err.code === "ENOENT"
isNotFound(code) == code = "ENOENT"

SetupFunctions == {"setupNpmRc", "setupBunfigToml"}
FileOf(f) == IF f = "setupNpmRc" THEN NPMRC_FILE ELSE BUNFIG_FILE
MarkerOf(f) == IF f = "setupNpmRc" THEN JSR_NPMRC ELSE JSR_BUNFIG
MsgOf(f) == IF f = "setupNpmRc" THEN NpmRcMsg ELSE BunfigMsg
HasMarker(f, c) == IF f = "setupNpmRc" THEN npmRcHasLine(c) ELSE bunfigHasScope(c)

InstallingMsg == <<"Installing ", "...", "\n">>

\* the setup function returned: a direct call is over, install goes on to
\* console.log and pkgManager.install
SetupReturned(out) == /\ fn' = "none"
                      /\ err' = err
                      /\ IF cmd = "install" THEN pc' = "pm_install" /\ stdout' = Append(out, InstallingMsg) ELSE pc' = "done" /\ stdout' = out

\* the setup function threw: nothing up the stack catches it
SetupThrew(out, code) == /\ fn' = "none"
                         /\ err' = code
                         /\ pc' = "failed"
                         /\ stdout' = out

\* lines 30-32 and 37-39 (52-54, 59-61): await readFile, then the test
SetupRead(f) == /\ pc = "read" /\ fn = f
                /\ \E r \in ReadOutcomes(fs[FileOf(f)]) :
                     /\ io' = Append(io, [op |-> "readFile", file |-> FileOf(f), data |-> fs[FileOf(f)].data, res |-> r])
                     /\ IF r = "ok"
                        THEN IF HasMarker(f, fs[FileOf(f)].data)
                             THEN content' = fs[FileOf(f)].data /\ SetupReturned(stdout)
                             ELSE /\ content' = appendMarker(fs[FileOf(f)].data, MarkerOf(f))
                                  /\ stdout' = wrapWithStatusStart(stdout, MsgOf(f))
                                  /\ pc' = "write_try"
                                  /\ UNCHANGED <<fn, err>>
                        ELSE IF isNotFound(r)
                             THEN /\ stdout' = wrapWithStatusStart(stdout, MsgOf(f))
                                  /\ pc' = "write_catch"
                                  /\ UNCHANGED <<fn, err, content>>
                             ELSE SetupThrew(stdout, r) /\ UNCHANGED content
                /\ UNCHANGED <<fs, cmd, mgr, opts, pmCalls, pre, prev, calls>>
                /\ UNCHANGED pubVars

\* lines 33-35 (55-57): await writeFile(path, content) inside the try block;
\* a rejection goes through wrapWithStatus' catch and then the catch of
\* line 37 (59)
SetupWriteTry(f) == /\ pc = "write_try" /\ fn = f
                    /\ \E r \in WriteOutcomes :
                         /\ io' = Append(io, [op |-> "writeFile", file |-> FileOf(f), data |-> content, res |-> r])
                         /\ IF r = "ok"
                            THEN /\ fs' = [fs EXCEPT ![FileOf(f)] = File(content)]
                                 /\ SetupReturned(wrapWithStatusOk(stdout))
                            ELSE /\ fs' = fs
                                 /\ IF isNotFound(r)
                                    THEN /\ stdout' = wrapWithStatusStart(wrapWithStatusError(stdout), MsgOf(f))
                                         /\ pc' = "write_catch"
                                         /\ UNCHANGED <<fn, err>>
                                    ELSE SetupThrew(wrapWithStatusError(stdout), r)
                    /\ UNCHANGED <<cmd, mgr, opts, content, pmCalls, pre, prev, calls>>
                    /\ UNCHANGED pubVars

\* lines 39-41 (61-63): await writeFile(path, marker) inside the catch block
SetupWriteCatch(f) == /\ pc = "write_catch" /\ fn = f
                      /\ \E r \in WriteOutcomes :
                           /\ io' = Append(io, [op |-> "writeFile", file |-> FileOf(f), data |-> MarkerOf(f), res |-> r])
                           /\ IF r = "ok"
                              THEN /\ fs' = [fs EXCEPT ![FileOf(f)] = File(MarkerOf(f))]
                                   /\ SetupReturned(wrapWithStatusOk(stdout))
                              ELSE /\ fs' = fs
                                   /\ SetupThrew(wrapWithStatusError(stdout), r)
                      /\ UNCHANGED <<cmd, mgr, opts, content, pmCalls, pre, prev, calls>>
                      /\ UNCHANGED pubVars

setupNpmRc_readFile == SetupRead("setupNpmRc")
setupNpmRc_writeFile == SetupWriteTry("setupNpmRc")
setupNpmRc_catch == SetupWriteCatch("setupNpmRc")
setupBunfigToml_readFile == SetupRead("setupBunfigToml")
setupBunfigToml_writeFile == SetupWriteTry("setupBunfigToml")
setupBunfigToml_catch == SetupWriteCatch("setupBunfigToml")

----------------------------------------------------------------------------
(* install *)

PkgManagerName == {"npm", "yarn", "pnpm", "bun"}
Modes == {"dev", "prod", "optional"}
InstallOptions == [pkgManagerName : PkgManagerName \cup {"null"}, mode : Modes]
NoOptions == [pkgManagerName |-> "null", mode |-> "prod"]
Packages == <<"@std/fs">>

\* getPkgManager(cwd, name): the named manager, or a detected one, or a failure
getPkgManager(name) == (IF name = "null" THEN PkgManagerName ELSE {name}) \cup {"fail"}

\* a variant that never takes the Bun branch
isBun_never(m) == FALSE
\* pkgManager instanceof Bun
isBun(m) == m = "bun"
\* the branch of lines 81-86
setupFor(m) == IF isBun(m) THEN "setupBunfigToml" ELSE "setupNpmRc"

NoRun == [cmd |-> "none", ok |-> FALSE]

\* a command starts on the directory: one of the exported functions is called
Call(c, o) == /\ pc \in {"idle", "done", "failed"}
              /\ calls < MaxCalls
              /\ calls' = calls + 1
              /\ cmd' = c
              /\ opts' = o
              /\ prev' = IF pc = "idle" THEN NoRun ELSE [cmd |-> cmd, ok |-> pc = "done"]
              /\ pre' = fs
              /\ IF c = "install" THEN pc' = "mgr" /\ fn' = "none" ELSE pc' = "read" /\ fn' = c
              /\ mgr' = "none" /\ content' = <<>> /\ err' = "none"
              /\ stdout' = <<>> /\ io' = <<>> /\ pmCalls' = <<>>
              /\ UNCHANGED fs
              /\ UNCHANGED pubVars

CallSetup == \E c \in SetupFunctions : Call(c, NoOptions)
CallInstall == \E o \in InstallOptions : Call("install", o)

\* line 79: await getPkgManager(...), then the branch of line 81
install_getPkgManager == /\ pc = "mgr"
                         /\ \E m \in getPkgManager(opts.pkgManagerName) :
                              IF m = "fail"
                              THEN pc' = "failed" /\ err' = "EPKGMGR" /\ UNCHANGED <<mgr, fn>>
                              ELSE mgr' = m /\ fn' = setupFor(m) /\ pc' = "read" /\ err' = err
                         /\ UNCHANGED <<fs, cmd, opts, content, stdout, io, pmCalls, pre, prev, calls>>
                         /\ UNCHANGED pubVars

\* line 89: await pkgManager.install(packages, options)
install_pkgManagerInstall == /\ pc = "pm_install"
                             /\ pmCalls' = Append(pmCalls, [mgr |-> mgr, packages |-> Packages, mode |-> opts.mode])
                             /\ \E r \in {"ok", "EINSTALL"} :
                                  IF r = "ok" THEN pc' = "done" /\ err' = err ELSE pc' = "failed" /\ err' = r
                             /\ UNCHANGED <<fs, cmd, fn, mgr, opts, content, stdout, io, pre, prev, calls>>
                             /\ UNCHANGED pubVars

----------------------------------------------------------------------------
(* The commands on the config files *)

PubIdle == /\ bin = [exists |-> FALSE, files |-> <<>>]
           /\ ppc = <<>> /\ popts = <<>> /\ info = <<>> /\ perr = <<>> /\ ops = <<>>

CfgIdle == /\ cmd = "none" /\ fn = "none" /\ pc = "idle" /\ mgr = "none"
           /\ opts = NoOptions /\ content = <<>> /\ err = "none"
           /\ stdout = <<>> /\ io = <<>> /\ pmCalls = <<>>
           /\ pre = fs /\ prev = NoRun /\ calls = 0

\* setupNpmRc and setupBunfigToml called on a directory, one run after another
Init == /\ fs \in [ConfigFiles -> InitialFiles(NpmRcFragments) \cup InitialFiles(BunfigFragments)]
        /\ fs[NPMRC_FILE] \in InitialFiles(NpmRcFragments)
        /\ fs[BUNFIG_FILE] \in InitialFiles(BunfigFragments)
        /\ CfgIdle
        /\ PubIdle

Next == \/ CallSetup
        \/ setupNpmRc_readFile
        \/ setupNpmRc_writeFile
        \/ setupNpmRc_catch
        \/ setupBunfigToml_readFile
        \/ setupBunfigToml_writeFile
        \/ setupBunfigToml_catch

Spec == Init /\ [][Next]_vars

\* install run on a directory whose config files are absent, lack the marker
\* or hold it
InstallFiles(f) == {Absent, File(<<"\n">>), File(MarkerOf(f))}

InitInstall == /\ fs \in [ConfigFiles -> InstallFiles("setupNpmRc") \cup InstallFiles("setupBunfigToml")]
               /\ fs[NPMRC_FILE] \in InstallFiles("setupNpmRc")
               /\ fs[BUNFIG_FILE] \in InstallFiles("setupBunfigToml")
               /\ CfgIdle
               /\ PubIdle

NextInstall == \/ CallInstall
               \/ setupNpmRc_readFile
               \/ setupNpmRc_writeFile
               \/ setupNpmRc_catch
               \/ setupBunfigToml_readFile
               \/ setupBunfigToml_writeFile
               \/ setupBunfigToml_catch
               \/ install_getPkgManager
               \/ install_pkgManagerInstall

SpecInstall == InitInstall /\ [][NextInstall]_vars

----------------------------------------------------------------------------
(* What a run did, read off its io log and its output *)

IsWrite(e) == e.op = "writeFile"
Writes == SelectSeq(io, IsWrite)
IsErrorLine(t) == t = <<"error", "\n">>
ErrorLines == Len(SelectSeq(stdout, IsErrorLine))
Ended == pc \in {"done", "failed"}
\* the run before the current one was the same setup function and returned normally
AfterCompleted(f) == cmd = f /\ prev.cmd = f /\ prev.ok

----------------------------------------------------------------------------
(* Claims about setupNpmRc and setupBunfigToml (under Spec) *)

\* C1: setupBunfigToml is idempotent under repeated invocation: after one
\* invocation has completed, a second invocation on the same directory
\* performs no write and leaves bunfig.toml as the first one left it.
C1_BunfigIdempotent == AfterCompleted("setupBunfigToml") => Writes = <<>> /\ fs[BUNFIG_FILE] = pre[BUNFIG_FILE]

\* C3: when .npmrc exists and already contains the registry line, setupNpmRc
\* performs no write and leaves the file unchanged; consequently every
\* invocation after one that completed changes nothing.
C3_NpmRcUntouchedWhenPresent == /\ cmd = "setupNpmRc" /\ pre[NPMRC_FILE].exists /\ Includes(pre[NPMRC_FILE].data, JSR_NPMRC)
                                   => Writes = <<>> /\ fs[NPMRC_FILE] = pre[NPMRC_FILE] /\ stdout = <<>> /\ pc \in {"read", "done", "failed"}
                                /\ AfterCompleted("setupNpmRc")
                                   => Includes(pre[NPMRC_FILE].data, JSR_NPMRC) /\ Writes = <<>> /\ fs = pre

\* a second setupNpmRc run has returned, on a file that holds more than the line
C3_Witness == /\ AfterCompleted("setupNpmRc") /\ pc = "done"
              /\ Len(io) = 1 /\ io[1].res = "ok"
              /\ Len(fs[NPMRC_FILE].data) > Len(JSR_NPMRC)

C5_NpmRcCreateOrPropagate == cmd = "setupNpmRc" /\ io # <<>>
                                => /\ io[1].op = "readFile"
                                   /\ io[1].res = "ENOENT"
                                      => /\ ~pre[NPMRC_FILE].exists
                                         /\ Len(io) <= 2
                                         /\ pc = "write_catch" \/ Len(io) = 2
                                         /\ Len(io) = 2 => io[2] = [op |-> "writeFile", file |-> NPMRC_FILE, data |-> JSR_NPMRC, res |-> io[2].res]
                                         /\ pc = "done" => fs[NPMRC_FILE] = File(JSR_NPMRC)
                                   /\ io[1].res \notin {"ok", "ENOENT"}
                                      => /\ pc = "failed" /\ err = io[1].res
                                         /\ Len(io) = 1 /\ fs = pre /\ stdout = <<>>

\* .npmrc was absent and has been created
C5_WitnessCreated == /\ cmd = "setupNpmRc" /\ pc = "done" /\ ~pre[NPMRC_FILE].exists
                     /\ fs[NPMRC_FILE] = File(JSR_NPMRC)

\* C10: no operation is retried: whenever a write of the config file fails
\* (with any error, not-found included) the error propagates to the caller,
\* "error" is printed once, and no second write is attempted in the run.
C10_NoRetryAfterFailedWrite == \A i \in 1..Len(Writes) : Writes[i].res # "ok"
                                  => /\ i = Len(Writes)
                                     /\ pc = "failed" /\ err = Writes[i].res
                                     /\ ErrorLines = 1

----------------------------------------------------------------------------
(* publish: the binary cache folder options.binFolder and the invocations  *)
(* that share it                                                           *)

\* number of publish invocations that may be in progress at once
MaxProcs == 2

Procs == 1..MaxProcs
Platforms == {"linux", "darwin", "win32"}
Versions == {"1.40.0", "1.41.0"}

\* options.token: string | undefined
Undefined == [set |-> FALSE, value |-> ""]
Token(v) == [set |-> TRUE, value |-> v]
Tokens == {Undefined, Token(""), Token("abc")}

\* process.platform and the PublishOptions of an invocation (binFolder is
\* the one folder of the model)
PublishOptions == [platform : Platforms, dryRun : BOOLEAN, allowSlowTypes : BOOLEAN, token : Tokens]
\* the options of a bare `jsr publish`, on each platform
BareOptions == [platform : Platforms, dryRun : {FALSE}, allowSlowTypes : {FALSE}, token : {Undefined}]
NoPublishOptions == [platform |-> "linux", dryRun |-> FALSE, allowSlowTypes |-> FALSE, token |-> Undefined]
NoInfo == [version |-> "none", platform |-> "none"]

\* process.platform === "win32" ? "deno.exe" : "deno"
binaryName(platform) == IF platform = "win32" THEN "deno.exe" ELSE "deno"

\* a variant that leaves process.platform out of the path
binPath_noPlatform(version, platform) == <<version, binaryName(platform)>>
\* path.join(options.binFolder, info.version, process.platform, binaryName),
\* relative to binFolder
binPath(version, platform) == <<version, platform, binaryName(platform)>>

\* a variant that clears and downloads on every run
needsDownload_always(exists) == TRUE
\* the if of line 119: download when the binary is not there
needsDownload(exists) == ~exists

\* a variant that swallows every deletion error
rmErrorSwallowed_any(code) == TRUE
\* the catch of lines 124-128: only not-found is swallowed
rmErrorSwallowed(code) == code = "ENOENT"

\* a JavaScript string | undefined used as a condition
Truthy(t) == t.set /\ t.value # ""

\* a variant that pushes --allow-slow-types before --dry-run
publishArgs_slowFirst(o) == <<"publish", "--unstable-bare-node-builtins", "--unstable-sloppy-imports">>
                            \o (IF o.allowSlowTypes THEN <<"--allow-slow-types">> ELSE <<>>)
                            \o (IF o.dryRun THEN <<"--dry-run">> ELSE <<>>)
                            \o (IF Truthy(o.token) THEN <<"--token", o.token.value>> ELSE <<>>)
\* lines 134-141
publishArgs(o) == <<"publish", "--unstable-bare-node-builtins", "--unstable-sloppy-imports">>
                  \o (IF o.dryRun THEN <<"--dry-run">> ELSE <<>>)
                  \o (IF o.allowSlowTypes THEN <<"--allow-slow-types">> ELSE <<>>)
                  \o (IF Truthy(o.token) THEN <<"--token", o.token.value>> ELSE <<>>)

NoFiles == [x \in {} |-> NoInfo]
EmptyFolder == [exists |-> TRUE, files |-> NoFiles]
NoFolder == [exists |-> FALSE, files |-> NoFiles]
Restrict(f, S) == [x \in S |-> f[x]]

\* getDenoDownloadUrl(): the version and the URL of the binary for process.platform
getDenoDownloadUrl(platform) == {[version |-> v, platform |-> platform] : v \in Versions} \cup {NoInfo}

\* fileExists(binPath)
fileExists(path) == bin.exists /\ path \in DOMAIN bin.files

\* downloadDeno(binPath, info): the binary info names, stored at binPath
downloadDeno(path, i) == [exists |-> TRUE, files |-> [x \in DOMAIN bin.files \cup {path} |-> IF x = path THEN i ELSE bin.files[x]]]

PathOf(p) == binPath(info[p].version, popts[p].platform)
Log(p, e) == ops' = [ops EXCEPT ![p] = Append(@, e)]
Goto(p, l) == ppc' = [ppc EXCEPT ![p] = l]
Fail(p, code) == ppc' = [ppc EXCEPT ![p] = "failed"] /\ perr' = [perr EXCEPT ![p] = code]

\* publish(cwd, options) is called
publish_call(p, o) == /\ ppc[p] \in {"idle", "done", "failed"}
                      /\ calls < MaxCalls
                      /\ calls' = calls + 1
                      /\ popts' = [popts EXCEPT ![p] = o]
                      /\ info' = [info EXCEPT ![p] = NoInfo]
                      /\ perr' = [perr EXCEPT ![p] = "none"]
                      /\ ops' = [ops EXCEPT ![p] = <<>>]
                      /\ Goto(p, "resolve")
                      /\ UNCHANGED bin
                      /\ UNCHANGED <<fs, cmd, fn, pc, mgr, opts, content, err, stdout, io, pmCalls, pre, prev>>

\* line 106: await getDenoDownloadUrl()
publish_getDenoDownloadUrl(p) == /\ ppc[p] = "resolve"
                                 /\ \E i \in getDenoDownloadUrl(popts[p].platform) :
                                      /\ Log(p, [op |-> "getDenoDownloadUrl", path |-> <<>>, res |-> IF i = NoInfo THEN "EFETCH" ELSE "ok", args |-> <<>>])
                                      /\ IF i = NoInfo
                                         THEN Fail(p, "EFETCH") /\ UNCHANGED info
                                         ELSE info' = [info EXCEPT ![p] = i] /\ Goto(p, "check") /\ UNCHANGED perr
                                 /\ UNCHANGED <<bin, popts>>
                                 /\ UNCHANGED cfgVars

\* line 119: await fileExists(binPath)
publish_fileExists(p) == /\ ppc[p] = "check"
                         /\ Log(p, [op |-> "fileExists", path |-> PathOf(p), res |-> IF fileExists(PathOf(p)) THEN "true" ELSE "false", args |-> <<>>])
                         /\ Goto(p, IF needsDownload(fileExists(PathOf(p))) THEN "rm" ELSE "exec")
                         /\ UNCHANGED <<bin, popts, info, perr>>
                         /\ UNCHANGED cfgVars

\* lines 122-128: await fs.promises.rm(options.binFolder, { recursive: true }):
\* not-found exactly when the folder is absent; a failure may have removed
\* part of the folder
publish_rm(p) == /\ ppc[p] = "rm"
                 /\ \E r \in (IF bin.exists THEN {"ok"} ELSE {"ENOENT"}) \cup {"EACCES"} :
                      /\ Log(p, [op |-> "rm", path |-> <<>>, res |-> r, args |-> <<>>])
                      /\ IF r = "ok"
                         THEN bin' = NoFolder
                         ELSE \E S \in SUBSET DOMAIN bin.files : bin' = [bin EXCEPT !.files = Restrict(bin.files, S)]
                      /\ IF r = "ok" \/ rmErrorSwallowed(r)
                         THEN Goto(p, "download") /\ UNCHANGED perr
                         ELSE Fail(p, r)
                 /\ UNCHANGED <<popts, info>>
                 /\ UNCHANGED cfgVars

\* line 130: await downloadDeno(binPath, info)
publish_downloadDeno(p) == /\ ppc[p] = "download"
                           /\ \E r \in {"ok", "EDOWNLOAD"} :
                                /\ Log(p, [op |-> "downloadDeno", path |-> PathOf(p), res |-> r, args |-> <<>>])
                                /\ IF r = "ok"
                                   THEN bin' = downloadDeno(PathOf(p), info[p]) /\ Goto(p, "exec") /\ UNCHANGED perr
                                   ELSE bin' = bin /\ Fail(p, r)
                           /\ UNCHANGED <<popts, info>>
                           /\ UNCHANGED cfgVars

\* lines 134-142: await exec(binPath, args, cwd); a binary that is no longer
\* there cannot be started
publish_exec(p) == /\ ppc[p] = "exec"
                   /\ \E r \in (IF fileExists(PathOf(p)) THEN {"ok"} ELSE {}) \cup {"EEXEC"} :
                        /\ Log(p, [op |-> "exec", path |-> PathOf(p), res |-> r, args |-> publishArgs(popts[p])])
                        /\ IF r = "ok" THEN Goto(p, "done") /\ UNCHANGED perr ELSE Fail(p, r)
                   /\ UNCHANGED <<bin, popts, info>>
                   /\ UNCHANGED cfgVars

PublishSteps == \/ \E p \in Procs : publish_getDenoDownloadUrl(p)
                \/ \E p \in Procs : publish_fileExists(p)
                \/ \E p \in Procs : publish_rm(p)
                \/ \E p \in Procs : publish_downloadDeno(p)
                \/ \E p \in Procs : publish_exec(p)

\* binFolder before the first publish: absent, or there and empty; cached
\* binaries are those the invocations store
InitialFolders == {NoFolder, EmptyFolder}

CfgUnused == /\ fs = [f \in ConfigFiles |-> Absent]
             /\ CfgIdle

InitPublish == /\ bin \in InitialFolders
               /\ ppc = [p \in Procs |-> "idle"]
               /\ popts = [p \in Procs |-> NoPublishOptions]
               /\ info = [p \in Procs |-> NoInfo]
               /\ perr = [p \in Procs |-> "none"]
               /\ ops = [p \in Procs |-> <<>>]
               /\ CfgUnused

\* invocations of a bare publish that share binFolder, in any interleaving
NextPublish == \/ \E p \in Procs, o \in BareOptions : publish_call(p, o)
               \/ PublishSteps

SpecPublish == InitPublish /\ [][NextPublish]_vars

\* one invocation at a time, with every combination of options
NextPublishOptions == \/ \E o \in PublishOptions : publish_call(1, o)
                      \/ PublishSteps

SpecPublishOptions == InitPublish /\ [][NextPublishOptions]_vars

----------------------------------------------------------------------------
(* Claims about install (under SpecInstall) *)

\* the config file the resolved manager calls for
ChosenFile == IF mgr = "bun" THEN BUNFIG_FILE ELSE NPMRC_FILE
OtherFile == IF mgr = "bun" THEN NPMRC_FILE ELSE BUNFIG_FILE

\* C9: in every run of install exactly one config file is set up, chosen by
\* the resolved manager: bunfig.toml and never .npmrc for Bun, .npmrc and
\* never bunfig.toml otherwise; the setup has completed before the manager's
\* install is invoked, and when manager resolution or the setup fails the
\* manager's install is never invoked.
C9_InstallSetsUpOneFile == cmd = "install"
                              => /\ \A i \in 1..Len(io) : mgr # "none" /\ io[i].file = ChosenFile
                                 /\ mgr # "none" => fs[OtherFile] = pre[OtherFile]
                                 /\ fn # "none" => mgr # "none" /\ fn = (IF mgr = "bun" THEN "setupBunfigToml" ELSE "setupNpmRc")
                                 /\ (pc = "pm_install" \/ pmCalls # <<>>)
                                    => /\ fn = "none" /\ io # <<>>
                                       /\ io[Len(io)].res = "ok"
                                       /\ fs[ChosenFile].exists
                                       /\ err \in {"none", "EINSTALL"}
                                       /\ stdout # <<>> /\ stdout[Len(stdout)] = InstallingMsg
                                 /\ Len(pmCalls) <= 1
                                 /\ pmCalls # <<>> => pmCalls[1].mgr = mgr /\ pmCalls[1].mode = opts.mode /\ Ended
                                 /\ pc = "done" => Len(pmCalls) = 1
                                 /\ err \in {"EPKGMGR", "ENOENT", "EACCES"} => pmCalls = <<>> /\ pc = "failed"

\* install with Bun wrote bunfig.toml and then called the manager's install
C9_Witness == /\ cmd = "install" /\ mgr = "bun" /\ pc = "done"
              /\ Len(Writes) = 1 /\ Writes[1].file = BUNFIG_FILE
              /\ Len(pmCalls) = 1

----------------------------------------------------------------------------
(* Claims about publish (under SpecPublish and SpecPublishOptions) *)

\* <binFolder>/<version>/<platform>/<binaryName>, written out independently of binPath
ExpectedPath(p) == <<info[p].version, popts[p].platform, IF popts[p].platform = "win32" THEN "deno.exe" ELSE "deno">>
OpIs(p, i, o, r) == i \in 1..Len(ops[p]) /\ ops[p][i].op = o /\ ops[p][i].res = r
Execs(p) == {i \in 1..Len(ops[p]) : ops[p][i].op = "exec"}

\* two invocations differ in platform or resolved version
Differ(p, q) == popts[p].platform # popts[q].platform \/ info[p].version # info[q].version
\* invocation q found or stored its binary at its path, and it is there
Cached(q) == /\ \E i \in 1..Len(ops[q]) : OpIs(q, i, "fileExists", "true") \/ OpIs(q, i, "downloadDeno", "ok")
             /\ fileExists(PathOf(q))
\* the binary at q's path is as it was
Kept(q) == /\ bin'.exists /\ PathOf(q) \in DOMAIN bin'.files
           /\ bin'.files[PathOf(q)] = bin.files[PathOf(q)]
StepBy(p) == ppc'[p] # ppc[p]

\* C2 as claimed: for two invocations sharing binFolder that differ in
\* platform or resolved version, no step of one removes or overwrites the
\* binary the other has cached at its own path.
C2_NeverRemovedNorOverwritten == [][\A p \in Procs, q \in Procs : p # q /\ Differ(p, q) /\ Cached(q) /\ StepBy(p) => Kept(q)]_vars

\* C2 amended: no step of one invocation overwrites the binary the other has
\* cached (a download stores only at the invocation's own path); the only
\* step that removes it is the recursive deletion of binFolder, which an
\* invocation makes after finding its own binary absent.
C2_OnlyFolderDeletionRemoves == [][\A p \in Procs, q \in Procs : p # q /\ Differ(p, q) /\ Cached(q) /\ StepBy(p) => Kept(q) \/ (ppc[p] = "rm" /\ OpIs(p, Len(ops[p]), "fileExists", "false"))]_vars

\* two invocations that differ hold their binaries side by side
C2_Witness == \E p \in Procs, q \in Procs : /\ p # q /\ Differ(p, q) /\ Cached(p) /\ Cached(q)
                                            /\ bin.files[PathOf(p)] = info[p] /\ bin.files[PathOf(q)] = info[q]
                                            /\ OpIs(p, Len(ops[p]), "downloadDeno", "ok")

\* C6: when the binary already exists at the computed path, publish makes no
\* deletion of binFolder and no download, and then invokes the subprocess
\* exactly once, on that path.
C6_CachedBinaryIsReused == \A p \in Procs : \A i \in 1..Len(ops[p]) : OpIs(p, i, "fileExists", "true")
                              => /\ ops[p][i].path = ExpectedPath(p)
                                 /\ \A j \in 1..Len(ops[p]) : ops[p][j].op \notin {"rm", "downloadDeno"}
                                 /\ Len(ops[p]) = i => ppc[p] = "exec"
                                 /\ Len(ops[p]) > i
                                    => /\ Len(ops[p]) = i + 1 /\ Execs(p) = {i + 1}
                                       /\ ops[p][i + 1].path = ExpectedPath(p)
                                       /\ ppc[p] \in {"done", "failed"}

\* an invocation found its binary and ran it
C6_Witness == \E p \in Procs : /\ ppc[p] = "done" /\ Len(ops[p]) = 3
                               /\ OpIs(p, 2, "fileExists", "true") /\ OpIs(p, 3, "exec", "ok")

\* C7: when the binary is absent at the computed path, the recursive deletion
\* of binFolder is attempted before any download; a not-found failure of the
\* deletion is swallowed and the download to the computed path proceeds; any
\* other deletion error propagates with no download started, a download
\* failure propagates, and in both cases the subprocess is never invoked.
C7_DeleteThenDownload == \A p \in Procs : \A i \in 1..Len(ops[p]) : OpIs(p, i, "fileExists", "false")
                            => /\ Len(ops[p]) = i => ppc[p] = "rm"
                               /\ Len(ops[p]) > i
                                  => /\ ops[p][i + 1].op = "rm"
                                     /\ ops[p][i + 1].res \in {"ok", "ENOENT"}
                                        => /\ Len(ops[p]) = i + 1 => ppc[p] = "download"
                                           /\ Len(ops[p]) > i + 1 => ops[p][i + 2].op = "downloadDeno" /\ ops[p][i + 2].path = ExpectedPath(p)
                                     /\ ops[p][i + 1].res \notin {"ok", "ENOENT"}
                                        => Len(ops[p]) = i + 1 /\ ppc[p] = "failed" /\ perr[p] = ops[p][i + 1].res
                               /\ Len(ops[p]) > i + 1 /\ ops[p][i + 2].res # "ok"
                                  => Len(ops[p]) = i + 2 /\ ppc[p] = "failed" /\ perr[p] = ops[p][i + 2].res
                               /\ Len(ops[p]) > i + 2
                                  => Len(ops[p]) = i + 3 /\ Execs(p) = {i + 3} /\ ops[p][i + 3].path = ExpectedPath(p)

\* one invocation's deletion failed with another error and it stopped there,
\* another's failed with not-found and it went on to download and run
C7_Witness == \E p \in Procs, q \in Procs : /\ OpIs(p, 3, "rm", "EACCES") /\ ppc[p] = "failed" /\ Len(ops[p]) = 3
                                            /\ OpIs(q, 3, "rm", "ENOENT") /\ OpIs(q, 4, "downloadDeno", "ok") /\ ppc[q] = "done"

\* the argument list: the three fixed arguments, then --dry-run, then
\* --allow-slow-types, then --token and its value, each present as told
ArgsAre(a, dry, slow, tok, value) == LET d == IF dry THEN 1 ELSE 0
                                         s == IF slow THEN 1 ELSE 0
                                     IN /\ Len(a) = 3 + d + s + (IF tok THEN 2 ELSE 0)
                                        /\ a[1] = "publish" /\ a[2] = "--unstable-bare-node-builtins" /\ a[3] = "--unstable-sloppy-imports"
                                        /\ dry => a[4] = "--dry-run"
                                        /\ slow => a[4 + d] = "--allow-slow-types"
                                        /\ tok => a[4 + d + s] = "--token" /\ a[5 + d + s] = value

\* C8 as claimed: the subprocess arguments are publish,
\* --unstable-bare-node-builtins, --unstable-sloppy-imports, then --dry-run
\* iff dryRun, then --allow-slow-types iff allowSlowTypes, then --token and
\* the token value iff a token is supplied (options.token is not undefined).
C8_TokenWheneverSupplied == \A p \in Procs : \A i \in Execs(p) : ArgsAre(ops[p][i].args, popts[p].dryRun, popts[p].allowSlowTypes, popts[p].token.set, popts[p].token.value)

\* C8 amended: the same, with --token and the token value present iff the
\* token supplied is a non-empty string.
C8_TokenWhenNonEmpty == \A p \in Procs : \A i \in Execs(p) : ArgsAre(ops[p][i].args, popts[p].dryRun, popts[p].allowSlowTypes, popts[p].token.set /\ popts[p].token.value # "", popts[p].token.value)

\* the subprocess was invoked with all three optional parts
C8_Witness == \E p \in Procs : \E i \in Execs(p) : /\ popts[p].dryRun /\ popts[p].allowSlowTypes /\ popts[p].token = Token("abc")
                                                   /\ Len(ops[p][i].args) = 7

====
